---- MODULE Spec2Model ----
(***************************************************************************)
(* A model of google/cloudstorage.go: a helper layer over a remote object  *)
(* store (PutFile, GetFile, Exists, FilesAtPath, ProcessFile,              *)
(* ProcessAndUpdateFile, SaveNetworkFile) and two archive helpers (Zip,    *)
(* UnZip).                                                                 *)
(*                                                                         *)
(* Three specifications share the variables:                              *)
(*   Spec        one client running the store helpers step by step, with   *)
(*               another writer on the same store interleaved;             *)
(*   SpecFilter  FilesAtPath applied to every bounded enumeration and      *)
(*               every predicate;                                          *)
(*   SpecZip     Zip and UnZip applied to every bounded map of files.      *)
(***************************************************************************)
EXTENDS Integers, Sequences, FiniteSets, TLC

VARIABLES
    store,    \* the remote store: a function from the existing objects to their bytes
    call,     \* the helper the client is running, with its arguments
    pc,       \* the client's position inside that helper
    data,     \* the local []byte of the running helper (data / body)
    wdata,    \* the data parameter of the running PutFile
    ctx,      \* the context of the exchange in flight: <<>> or <<timeout in seconds>>
    steps,    \* the functions the running helper has entered so far, in order
    ret,      \* what the helper returned
    lastPut,  \* per object: the bytes of the last PutFile that returned nil, if nothing wrote since
    dirty,    \* the other writer wrote the call's object since the helper fetched it
    listing,  \* SpecFilter: the object names the iterator yields
    filter,   \* SpecFilter: the variadic filter argument
    flret,    \* SpecFilter: the outcome of FilesAtPath
    files,    \* SpecZip: the map handed to Zip
    pending,  \* SpecZip: the keys the range loop has not visited yet
    zw,       \* SpecZip: the archive under construction
    zpc,      \* SpecZip: position in Zip / UnZip
    zret,     \* SpecZip: what Zip returned
    uret      \* SpecZip: what UnZip returned

storeVars == <<store, call, pc, data, wdata, ctx, steps, ret, lastPut, dirty>>
filterVars == <<listing, filter, flret>>
zipVars == <<files, pending, zw, zpc, zret, uret>>
vars == <<storeVars, filterVars, zipVars>>

----------------------------------------------------------------------------
(* Bounds and the small universes the inputs are drawn from.               *)

MaxLen == 1
MaxViews == 4
MaxFiles == 2

Bytes == {0, 1}
RECURSIVE SeqsUpTo(_, _)
SeqsUpTo(S, n) ==
    IF n = 0 THEN {<<>>}
    ELSE LET shorter == SeqsUpTo(S, n - 1)
         IN  shorter \cup {Append(s, x) : s \in {t \in shorter : Len(t) = n - 1}, x \in S}

\* []byte values; a nil []byte holds no bytes and is modelled as <<>>
Data == SeqsUpTo(Bytes, MaxLen)
NilBytes == <<>>

\* object names are sequences of characters, so that FileName really splits them
Slash == "/"
Buckets == {"b"}
Paths == {<<"a", "/">>, <<"a", "/", "x">>}
Objects == Buckets \X Paths
\* the names of a bucket in the order the store lists them (lexicographic)
PathOrder == << <<"a", "/">>, <<"a", "/", "x">> >>
Prefixes == {<<>>, <<"a", "/">>, <<"a", "/", "x">>}

PartialFns(D, R) == UNION {[S -> R] : S \in SUBSET D}
Range(f) == {f[x] : x \in DOMAIN f}

\* const Timeout = time.Second * 60
Timeout == 60
\* context.WithTimeout(ctx, time.Second*30) in FilesAtPath
ListTimeout == 30
Background == <<>>
WithTimeout(seconds) == <<seconds>>

NilErr == "nil"

\* the error values the helpers build; the text after the colon is the cause
ErrClient == "storage.NewClient: unavailable"
ErrCopy == "io.Copy: unavailable"
ErrCopyDeadline == "io.Copy: context deadline exceeded"
ErrClose == "Writer.Close: unavailable"
ErrCloseDeadline == "Writer.Close: context deadline exceeded"
ErrNotExist == "Object.NewReader: storage: object doesn't exist"
ErrReader == "Object.NewReader: unavailable"
ErrReaderDeadline == "Object.NewReader: context deadline exceeded"
ErrReadAll == "ioutil.ReadAll: unavailable"
ErrReadAllDeadline == "ioutil.ReadAll: context deadline exceeded"
ErrObjects == "Bucket.Objects: unavailable"
ErrObjectsDeadline == "Bucket.Objects: context deadline exceeded"
ErrNewRequest == "parse: missing protocol scheme"
ErrDo == "Get: dial tcp: unavailable"
ErrBody == "unexpected EOF"
ErrProcess == "process: failed"

PutFileErrs == {ErrClient, ErrCopy, ErrCopyDeadline, ErrClose, ErrCloseDeadline}
GetFileErrs == {ErrClient, ErrNotExist, ErrReader, ErrReaderDeadline, ErrReadAll,
                ErrReadAllDeadline}
HttpErrs == {ErrNewRequest, ErrDo, ErrBody}

----------------------------------------------------------------------------
(* FileMetadata and the filter pass of FilesAtPath.                        *)

\* a view of an object: the ObjectAttrs fields the helpers read
FileMetadata(bucket, name) == [Bucket |-> bucket, Name |-> name]

\* strings.Split(s.Name, "/") and its last element
LastSlash(name) ==
    LET at == {i \in 1..Len(name) : name[i] = Slash}
    IN  IF at = {} THEN 0 ELSE CHOOSE i \in at : \A j \in at : j <= i
FileName(s) == SubSeq(s.Name, LastSlash(s.Name) + 1, Len(s.Name))

HasPrefix(name, prefix) ==
    /\ Len(prefix) <= Len(name)
    /\ SubSeq(name, 1, Len(prefix)) = prefix

\* a predicate is the set of object names it accepts
Predicates(names) == SUBSET names
Accepts(predicate, object) == object.Name \in predicate

HasLeaf(object) == FileName(object) # <<>>
\* lines 122-134: every view the iterator yields whose leaf name is not empty
Collect(objects) == SelectSeq(objects, HasLeaf)

\* a removal that is off by one: append(result[:i+1], result[i+2:]...) drops
\* the view after the one the predicate rejected
ShiftDownNext(backing, i, len) ==
    [j \in 1..Len(backing) |-> IF j > i /\ j < len THEN backing[j + 1] ELSE backing[j]]

\* append(result[:i], result[i+1:]...) on the backing array: the tail moves one
\* place down, the last cell keeps its old value
ShiftDown(backing, i, len) ==
    [j \in 1..Len(backing) |-> IF j >= i /\ j < len THEN backing[j + 1] ELSE backing[j]]

\* lines 137-143. range evaluates result once: n iterations over the backing
\* array, read at the time of each iteration. i counts from 1 here, so the
\* code's result[i+1:] is out of range when i > len.
RECURSIVE FilterLoop(_, _, _, _)
FilterLoop(backing, len, i, predicate) ==
    IF i > Len(backing) THEN [panic |-> FALSE, val |-> SubSeq(backing, 1, len), err |-> NilErr]
    ELSE IF Accepts(predicate, backing[i]) THEN FilterLoop(backing, len, i + 1, predicate)
    ELSE IF i > len THEN [panic |-> TRUE, val |-> <<>>, err |-> NilErr]
    ELSE FilterLoop(ShiftDown(backing, i, len), len - 1, i + 1, predicate)

\* lines 122-145 of FilesAtPath, once the iterator has yielded objects
FilesAtPathResult(objects, flt) ==
    LET result == Collect(objects)
    IN  IF Len(flt) > 0 THEN FilterLoop(result, Len(result), 1, flt[1])
        ELSE [panic |-> FALSE, val |-> result, err |-> NilErr]

\* what the store lists under a prefix of a bucket, in its order
Enumerate(st, bucket, prefix) ==
    LET Listed(name) == <<bucket, name>> \in DOMAIN st /\ HasPrefix(name, prefix)
        ListedView(v) == Listed(v.Name)
    IN  SelectSeq([i \in 1..Len(PathOrder) |-> FileMetadata(bucket, PathOrder[i])], ListedView)
----------------------------------------------------------------------------
(* The store helpers, one action per step between two remote exchanges.    *)

\* the callbacks handed to ProcessFile and ProcessAndUpdateFile
Identity == [kind |-> "identity", out |-> NilBytes, err |-> NilErr]
Const(d) == [kind |-> "const", out |-> d, err |-> NilErr]
Failing == [kind |-> "fail", out |-> NilBytes, err |-> ErrProcess]
Observe == [kind |-> "observe", out |-> NilBytes, err |-> NilErr]
UpdateCallbacks == {Identity, Failing} \cup {Const(d) : d \in Data}
ReadCallbacks == {Observe, Failing}
NoProcess == [kind |-> "none", out |-> NilBytes, err |-> NilErr]
\* process(data) of ProcessAndUpdateFile: the new bytes and the error
Apply(process, d) ==
    [out |-> IF process.kind = "identity" THEN d ELSE process.out, err |-> process.err]

\* the headers argument of SaveNetworkFile: a nil map, or a map of header names
HeaderNames == {"Accept"}
NilHeaders == [isNil |-> TRUE, names |-> {}]
Headers == {NilHeaders} \cup {[isNil |-> FALSE, names |-> S] : S \in SUBSET HeaderNames}
\* the target URLs; http.NewRequest fails on the one url.Parse rejects
GoodUrl == "http://host/file"
BadUrl == "://host"
Urls == {GoodUrl, BadUrl}
NewRequestErr(targetUrl) == IF targetUrl = BadUrl THEN ErrNewRequest ELSE NilErr

NoCall == [fn |-> "idle", bucket |-> "", path |-> <<>>, data |-> NilBytes,
           process |-> NoProcess, filter |-> <<>>, targetUrl |-> "", headers |-> NilHeaders]
NoRet == [val |-> NilBytes, err |-> NilErr]
Key == <<call.bucket, call.path>>

\* the positions at which a remote exchange is in flight
InFlight == {"put_write", "get_read", "exists_attrs", "list_next", "http_do", "http_body"}

Write(st, key, d) == [k \in DOMAIN st \cup {key} |-> IF k = key THEN d ELSE st[k]]
Remove(f, key) == [k \in DOMAIN f \ {key} |-> f[k]]

Enter(c, at, fn) ==
    /\ pc = "idle"
    /\ call' = c
    /\ pc' = at
    /\ steps' = <<fn>>
    /\ ret' = NoRet
    /\ dirty' = FALSE
    /\ ctx' = Background
    /\ UNCHANGED <<store, lastPut, filterVars, zipVars>>

\* the helper returns (val, err) to the caller
Returns(val, err) ==
    /\ UNCHANGED <<filterVars, zipVars>>
    /\ pc' = "done"
    /\ ret' = [val |-> val, err |-> err]
    /\ ctx' = Background

Panics ==
    /\ UNCHANGED <<filterVars, zipVars>>
    /\ pc' = "panic"
    /\ ret' = NoRet
    /\ ctx' = Background

\* the helper goes on to its next position, under the context c
Goto(at, c) ==
    /\ pc' = at
    /\ ctx' = c
    /\ UNCHANGED <<ret, filterVars, zipVars>>

\* PutFile returns err to the function that called it
PutFileReturns(err) ==
    /\ IF call.fn = "SaveNetworkFile" THEN Returns(data, err) ELSE Returns(NilBytes, err)
    /\ UNCHANGED <<call, data, wdata, steps, dirty>>

\* GetFile returns (d, err) to the function that called it
GetFileReturns(d, err) ==
    /\ UNCHANGED <<call, wdata, steps, store, lastPut>>
    /\ IF call.fn = "GetFile" \/ err # NilErr
       THEN Returns(d, err) /\ UNCHANGED <<data, dirty>>
       ELSE /\ data' = d
            /\ dirty' = FALSE
            /\ Goto("process", Background)

PutFileCall(bucket, path, d) ==
    /\ Enter([NoCall EXCEPT !.fn = "PutFile", !.bucket = bucket, !.path = path, !.data = d],
             "put_client", "PutFile")
    /\ wdata' = d
    /\ data' = NilBytes

\* lines 28-35
PutFileNewClient ==
    /\ pc = "put_client"
    /\ \/ PutFileReturns(ErrClient) /\ UNCHANGED <<store, lastPut>>
       \/ /\ Goto("put_write", WithTimeout(Timeout))
          /\ UNCHANGED <<store, call, data, wdata, steps, lastPut, dirty>>

\* lines 37-45, the writer fails: nothing is stored
PutFileWriteFails ==
    /\ pc = "put_write"
    /\ \E err \in {ErrCopy, ErrClose} : PutFileReturns(err)
    /\ UNCHANGED <<store, lastPut>>

\* a writer that appends to the object instead of replacing it
PutFileAppends ==
    /\ pc = "put_write"
    /\ store' = Write(store, Key, IF Key \in DOMAIN store THEN store[Key] \o wdata ELSE wdata)
    /\ lastPut' = Write(lastPut, Key, wdata)
    /\ PutFileReturns(NilErr)

\* a conditional write: refused when the object changed since it was fetched
PutFileIfUnchanged ==
    /\ pc = "put_write"
    /\ ~dirty
    /\ store' = Write(store, Key, wdata)
    /\ lastPut' = Write(lastPut, Key, wdata)
    /\ PutFileReturns(NilErr)

\* lines 37-45, the writer is closed: the object is data, in full
PutFileWrite ==
    /\ pc = "put_write"
    /\ store' = Write(store, Key, wdata)
    /\ lastPut' = Write(lastPut, Key, wdata)
    /\ PutFileReturns(NilErr)

GetFileCall(bucket, path) ==
    /\ Enter([NoCall EXCEPT !.fn = "GetFile", !.bucket = bucket, !.path = path],
             "get_client", "GetFile")
    /\ UNCHANGED <<data, wdata>>

\* lines 51-59
GetFileNewClient ==
    /\ pc = "get_client"
    /\ \/ GetFileReturns(NilBytes, ErrClient)
       \/ /\ Goto("get_read", WithTimeout(Timeout))
          /\ UNCHANGED <<store, call, data, wdata, steps, lastPut, dirty>>

\* lines 61-70, NewReader or ReadAll fails
GetFileReadFails ==
    /\ pc = "get_read"
    /\ \/ Key \notin DOMAIN store /\ GetFileReturns(NilBytes, ErrNotExist)
       \/ \E err \in {ErrReader, ErrReadAll} : GetFileReturns(NilBytes, err)

\* lines 61-72
GetFileRead ==
    /\ pc = "get_read"
    /\ Key \in DOMAIN store
    /\ GetFileReturns(store[Key], NilErr)
ExistsCall(bucket, path) ==
    /\ Enter([NoCall EXCEPT !.fn = "Exists", !.bucket = bucket, !.path = path],
             "exists_client", "Exists")
    /\ UNCHANGED <<data, wdata>>

\* lines 78-79: the error of NewClient is dropped, and a nil client is
\* dereferenced by the Attrs call; otherwise Attrs runs on the background context
ExistsNewClient ==
    /\ pc = "exists_client"
    /\ \/ Panics
       \/ Goto("exists_attrs", Background)
    /\ UNCHANGED <<store, call, data, wdata, steps, lastPut, dirty>>

\* lines 80-87
ExistsAttrs ==
    /\ pc = "exists_attrs"
    /\ \/ Returns(Key \in DOMAIN store, NilErr)
       \/ Panics
    /\ UNCHANGED <<store, call, data, wdata, steps, lastPut, dirty>>

FilesAtPathCall(bucket, path, flt) ==
    /\ Enter([NoCall EXCEPT !.fn = "FilesAtPath", !.bucket = bucket, !.path = path,
                            !.filter = flt],
             "list_client", "FilesAtPath")
    /\ UNCHANGED <<data, wdata>>

\* lines 110-119
FilesAtPathNewClient ==
    /\ pc = "list_client"
    /\ \/ Returns(<<>>, ErrClient)
       \/ Goto("list_next", WithTimeout(ListTimeout))
    /\ UNCHANGED <<store, call, data, wdata, steps, lastPut, dirty>>

\* lines 121-145
FilesAtPath ==
    /\ pc = "list_next"
    /\ \/ Returns(<<>>, ErrObjects)
       \/ LET r == FilesAtPathResult(Enumerate(store, call.bucket, call.path), call.filter)
          IN  IF r.panic THEN Panics ELSE Returns(r.val, r.err)
    /\ UNCHANGED <<store, call, data, wdata, steps, lastPut, dirty>>

ProcessFileCall(bucket, path, process) ==
    /\ Enter([NoCall EXCEPT !.fn = "ProcessFile", !.bucket = bucket, !.path = path,
                            !.process = process],
             "get_client", "GetFile")
    /\ UNCHANGED <<data, wdata>>

\* line 156: return process(data)
ProcessFile ==
    /\ pc = "process"
    /\ call.fn = "ProcessFile"
    /\ steps' = Append(steps, "process")
    /\ Returns(NilBytes, call.process.err)
    /\ UNCHANGED <<store, call, data, wdata, lastPut, dirty>>

ProcessAndUpdateFileCall(bucket, path, process) ==
    /\ Enter([NoCall EXCEPT !.fn = "ProcessAndUpdateFile", !.bucket = bucket, !.path = path,
                            !.process = process],
             "get_client", "GetFile")
    /\ UNCHANGED <<data, wdata>>

\* PutFile(bucket, path, data): the fetched bytes are written back, not the processed ones
ProcessAndUpdateFileStale ==
    /\ pc = "process"
    /\ call.fn = "ProcessAndUpdateFile"
    /\ LET r == Apply(call.process, data)
       IN  IF r.err # NilErr
           THEN /\ Returns(NilBytes, r.err)
                /\ steps' = Append(steps, "process")
                /\ UNCHANGED wdata
           ELSE /\ Goto("put_client", Background)
                /\ wdata' = data
                /\ steps' = Append(Append(steps, "process"), "PutFile")
    /\ UNCHANGED <<store, call, data, lastPut, dirty>>

\* the callback's error is wrapped like the store errors are
ProcessAndUpdateFileWraps ==
    /\ pc = "process"
    /\ call.fn = "ProcessAndUpdateFile"
    /\ LET r == Apply(call.process, data)
       IN  IF r.err # NilErr
           THEN /\ Returns(NilBytes, "process: " \o r.err)
                /\ steps' = Append(steps, "process")
                /\ UNCHANGED wdata
           ELSE /\ Goto("put_client", Background)
                /\ wdata' = r.out
                /\ steps' = Append(Append(steps, "process"), "PutFile")
    /\ UNCHANGED <<store, call, data, lastPut, dirty>>

\* lines 167-171: the callback runs; on an error it is returned as it is,
\* otherwise PutFile is entered with the processed data
ProcessAndUpdateFile ==
    /\ pc = "process"
    /\ call.fn = "ProcessAndUpdateFile"
    /\ LET r == Apply(call.process, data)
       IN  IF r.err # NilErr
           THEN /\ Returns(NilBytes, r.err)
                /\ steps' = Append(steps, "process")
                /\ UNCHANGED wdata
           ELSE /\ Goto("put_client", Background)
                /\ wdata' = r.out
                /\ steps' = Append(Append(steps, "process"), "PutFile")
    /\ UNCHANGED <<store, call, data, lastPut, dirty>>

SaveNetworkFileCall(targetUrl, bucket, path, headers) ==
    /\ Enter([NoCall EXCEPT !.fn = "SaveNetworkFile", !.bucket = bucket, !.path = path,
                            !.targetUrl = targetUrl, !.headers = headers],
             "http_request", "SaveNetworkFile")
    /\ UNCHANGED <<data, wdata>>

\* lines 177-186: the headers are added to req before err is looked at, and
\* req is nil when NewRequest failed
SaveNetworkFileRequest ==
    /\ pc = "http_request"
    /\ LET err == NewRequestErr(call.targetUrl)
       IN  IF err # NilErr /\ ~call.headers.isNil /\ call.headers.names # {} THEN Panics
           ELSE IF err # NilErr THEN Returns(NilBytes, err)
           ELSE Goto("http_do", Background)
    /\ UNCHANGED <<store, call, data, wdata, steps, lastPut, dirty>>

\* lines 187-190: http.Client{} has no Timeout
SaveNetworkFileDo ==
    /\ pc = "http_do"
    /\ \/ Returns(NilBytes, ErrDo)
       \/ Goto("http_body", Background)
    /\ UNCHANGED <<store, call, data, wdata, steps, lastPut, dirty>>

\* lines 192-196: the body is read, then handed to PutFile
SaveNetworkFileBody ==
    /\ pc = "http_body"
    /\ \/ Returns(NilBytes, ErrBody) /\ UNCHANGED <<data, wdata, steps>>
       \/ \E body \in Data :
            /\ data' = body
            /\ wdata' = body
            /\ Goto("put_client", Background)
            /\ steps' = Append(steps, "PutFile")
    /\ UNCHANGED <<store, call, lastPut, dirty>>

\* the deadline of the context passes while the exchange is in flight: the
\* pending call of the storage library fails with context.DeadlineExceeded
DeadlineExceeded ==
    /\ pc \in InFlight
    /\ ctx # Background
    /\ \/ pc = "put_write" /\ \E err \in {ErrCopyDeadline, ErrCloseDeadline} : PutFileReturns(err)
                           /\ UNCHANGED <<store, lastPut>>
       \/ pc = "get_read" /\ \E err \in {ErrReaderDeadline, ErrReadAllDeadline} :
                                GetFileReturns(NilBytes, err)
       \/ pc = "list_next" /\ Returns(<<>>, ErrObjectsDeadline)
                           /\ UNCHANGED <<store, call, data, wdata, steps, lastPut, dirty>>

\* the caller takes the result; the client is free for the next call
Return ==
    /\ pc = "done"
    /\ pc' = "idle"
    /\ call' = NoCall
    /\ ret' = NoRet
    /\ data' = NilBytes
    /\ wdata' = NilBytes
    /\ steps' = <<>>
    /\ dirty' = FALSE
    /\ UNCHANGED <<store, ctx, lastPut, filterVars, zipVars>>

\* another client of the same store writes or deletes an object
OtherWriter ==
    \E key \in Objects :
        /\ \/ \E d \in Data : store' = Write(store, key, d)
           \/ key \in DOMAIN store /\ store' = Remove(store, key)
        /\ lastPut' = Remove(lastPut, key)
        /\ dirty' = (dirty \/ (pc \notin {"idle", "done", "panic"} /\ key = Key))
        /\ UNCHANGED <<call, pc, data, wdata, ctx, steps, ret, filterVars, zipVars>>

\* FilesAtPath has not run yet
NoOutcome == [status |-> "none", val |-> <<>>, err |-> NilErr]
\* a zip.Writer on an empty buffer: the central directory, the bytes written
\* so far, and whether the end-of-central-directory record closes them
NewWriter == [dir |-> <<>>, body |-> <<>>, eocd |-> FALSE]
NoArchive == [val |-> NewWriter, err |-> NilErr]
NoFiles == [val |-> <<>>, err |-> NilErr]

FilterIdle == listing = <<>> /\ filter = <<>> /\ flret = NoOutcome
ZipIdle == /\ files = <<>> /\ pending = {} /\ zw = NewWriter /\ zpc = "idle"
           /\ zret = NoArchive /\ uret = NoFiles
StoreIdle ==
    /\ call = NoCall
    /\ pc = "idle"
    /\ data = NilBytes
    /\ wdata = NilBytes
    /\ ctx = Background
    /\ steps = <<>>
    /\ ret = NoRet
    /\ lastPut = <<>>
    /\ dirty = FALSE

Init ==
    /\ store \in PartialFns(Objects, Data)
    /\ StoreIdle
    /\ FilterIdle
    /\ ZipIdle

\* the variadic filter argument: absent, or one predicate
Filters(names) == {<<>>} \cup {<<p>> : p \in Predicates(names)}

ClientNext ==
    \/ \E bucket \in Buckets, path \in Paths, d \in Data : PutFileCall(bucket, path, d)
    \/ \E bucket \in Buckets, path \in Paths : GetFileCall(bucket, path)
    \/ \E bucket \in Buckets, path \in Paths : ExistsCall(bucket, path)
    \/ \E bucket \in Buckets, prefix \in Prefixes, flt \in Filters(Paths) :
          FilesAtPathCall(bucket, prefix, flt)
    \/ \E bucket \in Buckets, path \in Paths, process \in ReadCallbacks :
          ProcessFileCall(bucket, path, process)
    \/ \E bucket \in Buckets, path \in Paths, process \in UpdateCallbacks :
          ProcessAndUpdateFileCall(bucket, path, process)
    \/ \E targetUrl \in Urls, bucket \in Buckets, path \in Paths, headers \in Headers :
          SaveNetworkFileCall(targetUrl, bucket, path, headers)
    \/ PutFileNewClient
    \/ PutFileWriteFails
    \/ PutFileWrite
    \/ GetFileNewClient
    \/ GetFileReadFails
    \/ GetFileRead
    \/ ExistsNewClient
    \/ ExistsAttrs
    \/ FilesAtPathNewClient
    \/ FilesAtPath
    \/ ProcessFile
    \/ ProcessAndUpdateFile
    \/ SaveNetworkFileRequest
    \/ SaveNetworkFileDo
    \/ SaveNetworkFileBody
    \/ DeadlineExceeded
    \/ Return

Next == ClientNext \/ OtherWriter

Spec == Init /\ [][Next]_vars
----------------------------------------------------------------------------
(* FilesAtPath on every enumeration: SpecFilter.                           *)

\* the names the iterator may yield, in the order the store lists them; the
\* first is a directory marker, whose leaf name is empty
ListedNames == << <<"d", "/">>, <<"d", "/", "a">>, <<"d", "/", "b">>, <<"d", "/", "c">>,
                  <<"d", "/", "e">> >>
NameSet == Range(ListedNames)
Chosen(S) == LET In(name) == name \in S IN SelectSeq(ListedNames, In)
\* the enumerations of at most MaxViews objects
Listings == {Chosen(S) : S \in {T \in SUBSET NameSet : Cardinality(T) <= MaxViews}}
Views(names) == [i \in 1..Len(names) |-> FileMetadata("b", names[i])]

\* lines 121-145 on what the iterator yielded
FilesAtPathRun ==
    /\ flret.status = "none"
    /\ LET r == FilesAtPathResult(Views(listing), filter)
       IN  flret' = [status |-> IF r.panic THEN "panic" ELSE "returned",
                     val |-> r.val, err |-> r.err]
    /\ UNCHANGED <<listing, filter, storeVars, zipVars>>

\* the caller hands the same enumeration to another predicate
FilesAtPathAgain ==
    /\ flret.status # "none"
    /\ flret' = NoOutcome
    /\ filter' \in Filters(NameSet)
    /\ UNCHANGED <<listing, storeVars, zipVars>>

InitFilter ==
    /\ store = <<>>
    /\ StoreIdle
    /\ ZipIdle
    /\ listing \in Listings
    /\ filter \in Filters(NameSet)
    /\ flret = NoOutcome

NextFilter == FilesAtPathRun \/ FilesAtPathAgain

SpecFilter == InitFilter /\ [][NextFilter]_vars
----------------------------------------------------------------------------
(* Zip and UnZip on every map of files: SpecZip.                           *)
(* The archive is what archive/zip lays out: the entries' bytes one after  *)
(* the other, then a central directory that names each entry with the      *)
(* offset and the size of its bytes, then the end record. The compression  *)
(* of an entry's bytes is lossless and is left out.                        *)

\* file names; the last one ends in a slash, which archive/zip takes for a directory
ZipNames == {<<"f">>, <<"g">>, <<"d", "/">>}
FileMaps == {m \in PartialFns(ZipNames, Data) : Cardinality(DOMAIN m) <= MaxFiles}
IsDirName(name) == Len(name) > 0 /\ name[Len(name)] = Slash
\* the longest name a file header can carry (a uint16 length)
NameLimit == 2 ^ 16 - 1
ErrLongName == "zip: FileHeader.Name too long"
ErrDirWrite == "zip: write to directory"
ErrFormat == "zip: not a valid zip file"

\* zipWriter.Create(filename): the header of a new entry at the end of the buffer
CreateErr(filename) == IF Len(filename) > NameLimit THEN ErrLongName ELSE NilErr
\* zipFile.Write(content): the writer of a directory entry takes no bytes
WriteErr(filename, content) ==
    IF IsDirName(filename) /\ Len(content) > 0 THEN ErrDirWrite ELSE NilErr

\* every entry recorded at offset 0, as if each one were written to a fresh buffer
ZipWriteAtStart(w, filename, content) ==
    [w EXCEPT !.dir = Append(@, [name |-> filename, offset |-> 0, size |-> Len(content)]),
              !.body = @ \o content]

\* lines 205-209, both calls succeeding: the entry's bytes follow what is
\* written, and the directory records where they are
ZipWrite(w, filename, content) ==
    [w EXCEPT !.dir = Append(@, [name |-> filename, offset |-> Len(w.body),
                                 size |-> Len(content)]),
              !.body = @ \o content]

\* lines 204-213: one iteration of the range over the map, on any key not yet visited
ZipRange ==
    /\ zpc = "range"
    /\ \E filename \in pending :
         LET content == files[filename]
             err == IF CreateErr(filename) # NilErr THEN CreateErr(filename)
                    ELSE WriteErr(filename, content)
         IN  IF err # NilErr
             THEN /\ zret' = [val |-> NewWriter, err |-> err]
                  /\ zpc' = "zipped"
                  /\ UNCHANGED <<zw, pending>>
             ELSE /\ zw' = ZipWrite(zw, filename, content)
                  /\ pending' = pending \ {filename}
                  /\ UNCHANGED <<zret, zpc>>
    /\ UNCHANGED <<files, uret, storeVars, filterVars>>

\* lines 214-217: Close writes the central directory and the end record
ZipClose ==
    /\ zpc = "range"
    /\ pending = {}
    /\ zw' = [zw EXCEPT !.eocd = TRUE]
    /\ zret' = [val |-> zw', err |-> NilErr]
    /\ zpc' = "zipped"
    /\ UNCHANGED <<files, pending, uret, storeVars, filterVars>>

\* contentFile.Open and ioutil.ReadAll: the bytes the directory entry points at
ReadEntry(file, entry) == SubSeq(file.body, entry.offset + 1, entry.offset + entry.size)

\* lines 228-239: result[contentFile.Name] = contentBytes, in directory order
RECURSIVE ReadFiles(_, _, _)
ReadFiles(file, i, result) ==
    IF i > Len(file.dir) THEN result
    ELSE ReadFiles(file, i + 1, Write(result, file.dir[i].name, ReadEntry(file, file.dir[i])))

\* lines 222-241: bytes without an end record are no archive
UnZip(file) ==
    IF ~file.eocd THEN [val |-> <<>>, err |-> ErrFormat]
    ELSE [val |-> ReadFiles(file, 1, <<>>), err |-> NilErr]

\* UnZip on the bytes Zip returned, its error dropped as in TestZipAndUnZip
UnZipRun ==
    /\ zpc = "zipped"
    /\ uret' = UnZip(zret.val)
    /\ zpc' = "unzipped"
    /\ UNCHANGED <<files, pending, zw, zret, storeVars, filterVars>>

InitZip ==
    /\ store = <<>>
    /\ StoreIdle
    /\ FilterIdle
    /\ files \in FileMaps
    /\ pending = DOMAIN files
    /\ zw = NewWriter
    /\ zpc = "range"
    /\ zret = NoArchive
    /\ uret = NoFiles

NextZip == ZipRange \/ ZipClose \/ UnZipRun

SpecZip == InitZip /\ [][NextZip]_vars

----------------------------------------------------------------------------
(* The claims about the filter pass, under SpecFilter.                     *)

RECURSIVE IsSubsequence(_, _)
IsSubsequence(s, t) ==
    IF s = <<>> THEN TRUE
    ELSE IF t = <<>> THEN FALSE
    ELSE IF Head(s) = Head(t) THEN IsSubsequence(Tail(s), Tail(t))
    ELSE IsSubsequence(s, Tail(t))
NoDuplicates(s) == \A i, j \in 1..Len(s) : s[i] = s[j] => i = j
\* what FilesAtPath returns without a predicate
Unfiltered == FilesAtPathResult(Views(listing), <<>>).val
Satisfies(object) == Accepts(filter[1], object)
\* the views of the unfiltered result that satisfy the predicate, in its order
Satisfying == SelectSeq(Unfiltered, Satisfies)
Filtered == flret.status # "none" /\ Len(filter) > 0

\* C1: with a predicate, what FilesAtPath returns is exactly the views the
\* predicate accepts, in the order of the unfiltered result.
C1_FilterExact == (Filtered /\ flret.status = "returned") => flret.val = Satisfying

\* C9: the filter pass runs to completion and returns a slice and a nil error,
\* whatever the predicate rejects: no slice expression of the loop is out of range.
C9_FilterCompletes ==
    flret.status # "none" => flret.status = "returned" /\ flret.err = NilErr

\* C10: whenever FilesAtPath with a predicate returns, its result is a
\* subsequence of the unfiltered result with no view twice, every view the
\* predicate accepts is in it, and so every view removed is one it rejects.
C10_FilterKeepsAccepted ==
    (Filtered /\ flret.status = "returned") =>
        /\ IsSubsequence(flret.val, Unfiltered)
        /\ NoDuplicates(flret.val)
        /\ \A i \in 1..Len(Unfiltered) :
              Satisfies(Unfiltered[i]) => \E j \in 1..Len(flret.val) : flret.val[j] = Unfiltered[i]

\* FilesAtPath returned after removing two views that were not adjacent in the result
C10_Witness ==
    /\ Filtered
    /\ flret.status = "returned"
    /\ Len(flret.val) + 2 <= Len(Unfiltered)
    /\ flret.val = Satisfying
----------------------------------------------------------------------------
(* The claim about the archive helpers, under SpecZip.                     *)

RoundTrip == zret.err = NilErr /\ uret.err = NilErr /\ uret.val = files
\* no name of the map makes Create or Write fail
Packable(m) ==
    \A name \in DOMAIN m : Len(name) <= NameLimit /\ (IsDirName(name) => m[name] = <<>>)

\* C2 as stated: for every map of distinct names, UnZip(Zip(M)) succeeds and equals M.
C2_RoundTripEveryMap == zpc = "unzipped" => RoundTrip

\* C2 as amended: for every map of distinct names of at most 65535 bytes in
\* which no name ending in "/" has bytes, UnZip(Zip(M)) succeeds and returns
\* a map equal to M, in whatever order Zip ranged over the map.
C2_RoundTrip == (zpc = "unzipped" /\ Packable(files)) => RoundTrip

\* two files with different bytes, the second one written first, came back
C2_Witness ==
    /\ zpc = "unzipped"
    /\ Packable(files)
    /\ Cardinality(DOMAIN files) >= 2
    /\ \E a, b \in DOMAIN files : a # b /\ files[a] # files[b]
    /\ Len(zw.dir) >= 2
    /\ zw.dir[1].name = <<"g">>
    /\ uret.val = files
----------------------------------------------------------------------------
(* The claims about the store helpers, under Spec.                         *)

Running(fn) == call.fn = fn
Done(fn) == call.fn = fn /\ pc = "done"
\* a step of the client (the other writer never moves pc)
ClientStep == pc' # pc
Entered(fn) == fn \in Range(steps)
\* the store apart from the object the call is about
Elsewhere(st) == [k \in DOMAIN st \ {Key} |-> st[k]]

\* C3 as stated: after PutFile(b,k,D) returned nil and nothing wrote (b,k)
\* since, GetFile(b,k) returns exactly D and a nil error.
C3_GetAfterPut ==
    (Done("GetFile") /\ Key \in DOMAIN lastPut) =>
        ret.err = NilErr /\ ret.val = lastPut[Key]

\* C3 as amended: after PutFile(b,k,D) returned nil and nothing wrote (b,k)
\* since, GetFile(b,k) returns either exactly D and a nil error, whatever was
\* stored before, or nil bytes and the error of its own client, reader or
\* deadline; it never returns other bytes and never reports the object missing.
C3_GetAfterPutOrError ==
    (Done("GetFile") /\ Key \in DOMAIN lastPut) =>
        \/ ret.err = NilErr /\ ret.val = lastPut[Key]
        \/ ret.err \in GetFileErrs \ {ErrNotExist} /\ ret.val = NilBytes

\* GetFile returned the bytes of the PutFile before it
C3_Witness ==
    /\ Done("GetFile")
    /\ Key \in DOMAIN lastPut
    /\ ret.err = NilErr
    /\ ret.val = lastPut[Key]
    /\ ret.val # <<>>

C5_ExchangesHaveDeadlines == pc \in InFlight => ctx # Background

\* C6: SaveNetworkFile never crashes; when the request cannot be built or
\* issued or the body cannot be read it returns nil bytes and that error
\* without entering PutFile, whatever the headers are.
C6_SaveNetworkFileFailsCleanly ==
    Running("SaveNetworkFile") =>
        /\ pc # "panic"
        /\ (NewRequestErr(call.targetUrl) # NilErr /\ pc # "http_request") =>
              Done("SaveNetworkFile") /\ ret.err = ErrNewRequest
        /\ (pc = "done" /\ ret.err \in HttpErrs) =>
              ret.val = NilBytes /\ ~Entered("PutFile")

\* C7: the write-back of ProcessAndUpdateFile is never held back by another
\* writer: once the callback has produced bytes the write can go through
\* whatever was stored since the fetch, the only errors it returns are
\* PutFile's own, and when it returns nil the object is the callback applied
\* to the bytes fetched earlier.
C7_LastWriteWins ==
    Running("ProcessAndUpdateFile") =>
        /\ pc = "put_write" => ENABLED PutFileWrite
        /\ (pc = "done" /\ Entered("PutFile")) => ret.err \in PutFileErrs \cup {NilErr}
        /\ (pc = "done" /\ ret.err = NilErr /\ Key \in DOMAIN lastPut) =>
              store[Key] = Apply(call.process, data).out

\* another writer stored bytes that are neither the fetched nor the processed
\* ones, and the write-back is about to replace them
C7_Witness ==
    /\ Running("ProcessAndUpdateFile")
    /\ pc = "put_write"
    /\ dirty
    /\ Key \in DOMAIN store
    /\ store[Key] # data
    /\ store[Key] # wdata
    /\ ENABLED PutFileWrite

\* C8: when the fetch of ProcessAndUpdateFile fails or its callback returns
\* an error, PutFile is not entered, the step that returns leaves the store
\* as it is, and the error returned is GetFile's error, or the callback's
\* error value itself.
C8_FailureLeavesObject ==
    [][ (Running("ProcessAndUpdateFile") /\ ClientStep) =>
          /\ Entered("PutFile")' =>
                steps' = <<"GetFile", "process", "PutFile">> /\ Apply(call.process, data').err = NilErr
          /\ (pc' = "done" /\ ~Entered("PutFile")') =>
                /\ store' = store
                /\ ret'.err # NilErr
                /\ steps' = <<"GetFile">> => ret'.err \in GetFileErrs
                /\ steps' # <<"GetFile">> =>
                      steps' = <<"GetFile", "process">> /\ ret'.err = call.process.err
      ]_vars

\* the callback failed on bytes that were fetched, and its error came back
C8_Witness ==
    /\ Done("ProcessAndUpdateFile")
    /\ steps = <<"GetFile", "process">>
    /\ ret.err = ErrProcess
    /\ Key \in DOMAIN store
====
